---- MODULE Spec2Model ----
(***************************************************************************)
(* insta-dl (src/main.py): a command-line tool that downloads one          *)
(* Instagram post per invocation, renames the saved files after the        *)
(* post's caption and journals the download in a per-profile log.          *)
(*                                                                         *)
(* A string is modelled as a sequence of symbols.  A symbol is one         *)
(* character, except for the words the code only ever treats as a unit     *)
(* ("http", "reel", "-o", "init", a browser name, a file extension).       *)
(***************************************************************************)
EXTENDS Integers, Sequences, FiniteSets, TLC

VARIABLES
    \* ---- pure-function harness: sanitize
    sName, sMaxLen, sResult,
    \* ---- pure-function harness: clean_url / extract_shortcode
    uHead, uTail1, uTail2, uResult1, uResult2,
    \* ---- the process: sys.argv[1:], INSTA_DL_DIR, position, locals, exit code
    argv, envDir, pc, loc, exitCode,
    \* ---- the disk: ~/.config/instaloader, the output tree, downloads.jsonl
    sessions, files, dirs, log,
    \* ---- history: what this run has done, the disk when it started, and
    \*      the run before it
    effects, pre, prev, saved

sanVars == <<sName, sMaxLen, sResult>>
urlVars == <<uHead, uTail1, uTail2, uResult1, uResult2>>
procVars == <<argv, envDir, pc, loc, exitCode>>
diskVars == <<sessions, files, dirs, log>>
histVars == <<effects, pre, prev, saved>>
cliVars == <<procVars, diskVars, histVars>>
vars == <<sanVars, urlVars, cliVars>>

\* ------------------------------------------------------------------ bounds
MaxNameLen == 4
MaxHead == 4
MaxTail == 2

\* ------------------------------------------------------------- sequences
Range(s) == {s[i] : i \in 1..Len(s)}

SetMax(S) == CHOOSE x \in S : \A y \in S : y <= x

SetMin(S) == CHOOSE x \in S : \A y \in S : x <= y

StartsWith(s, p) == Len(p) <= Len(s) /\ SubSeq(s, 1, Len(p)) = p

\* All sequences over alphabet A of length at most n.
SeqsUpTo(A, n) == UNION {[1..k -> A] : k \in 0..n}

\* A call's result: pending until the call has returned.
Pending == [done |-> FALSE]

Returned(v) == [done |-> TRUE, value |-> v]

\* ------------------------------------------------------------- sanitize
\* Python's name[:n]: n < 0 counts from the end.
Slice(name, n) ==
    LET len == Len(name)
        stop == IF n >= 0 THEN (IF n < len THEN n ELSE len)
                ELSE (IF len + n > 0 THEN len + n ELSE 0)
    IN  SubSeq(name, 1, stop)

\* s.rsplit(" ", 1)[0]: what precedes the last space, or all of s.
RSplitSpaceHead(s) ==
    LET idx == {i \in 1..Len(s) : s[i] = " "}
    IN  IF idx = {} THEN s ELSE SubSeq(s, 1, SetMax(idx) - 1)

TruncateNever(name, max_len) == name

\* if len(name) > max_len: name = name[:max_len].rsplit(" ", 1)[0]
Truncate(name, max_len) ==
    IF Len(name) > max_len THEN RSplitSpaceHead(Slice(name, max_len)) ELSE name

HostileChars == {"/", ":", "*", "?", "\"", "<", ">", "|", "\\"}

\* re.sub(r'[/:*?"<>|\\]', "_", name)
ReplaceHostile(s) == [i \in 1..Len(s) |-> IF s[i] \in HostileChars THEN "_" ELSE s[i]]

\* name.rstrip(". ")
RStrip(s) ==
    LET keep == {i \in 1..Len(s) : s[i] \notin {".", " "}}
    IN  IF keep = {} THEN <<>> ELSE SubSeq(s, 1, SetMax(keep))

sanitize(name, max_len) == RStrip(ReplaceHostile(Truncate(name, max_len)))

\* ------------------------------------------------- clean_url, shortcode
FirstIndex(s, c) ==
    LET idx == {i \in 1..Len(s) : s[i] = c}
    IN  IF idx = {} THEN 0 ELSE SetMin(idx)

\* urlparse: the fragment is what follows the first "#", the query what
\* follows the first "?" of the rest; scheme, host, path and parameters
\* stay together in "rest" (urlunparse puts them back in the same order).
urlparse(url) ==
    LET h == FirstIndex(url, "#")
        noFrag == IF h = 0 THEN url ELSE SubSeq(url, 1, h - 1)
        frag == IF h = 0 THEN <<>> ELSE SubSeq(url, h + 1, Len(url))
        q == FirstIndex(noFrag, "?")
    IN  [rest |-> IF q = 0 THEN noFrag ELSE SubSeq(noFrag, 1, q - 1),
         query |-> IF q = 0 THEN <<>> ELSE SubSeq(noFrag, q + 1, Len(noFrag)),
         fragment |-> frag]

\* urlunparse: an empty query or fragment leaves no "?" or "#".
urlunparse(p) ==
    p.rest \o (IF p.query = <<>> THEN <<>> ELSE <<"?">> \o p.query)
           \o (IF p.fragment = <<>> THEN <<>> ELSE <<"#">> \o p.fragment)

clean_url_keep(url) == url

\* urlunparse(parsed._replace(query="", fragment=""))
clean_url(url) == urlunparse([urlparse(url) EXCEPT !.query = <<>>, !.fragment = <<>>])

\* re.search(r"/(reel|p)/([^/?]+)", url): the leftmost match, its second
\* group as long as it can be; NoMatch where the code prints and exits 1.
NoMatch == [ok |-> FALSE, code |-> <<>>]

extract_shortcode(url) ==
    LET starts == {i \in 1..(Len(url) - 3) :
                      /\ url[i] = "/"
                      /\ url[i + 1] \in {"reel", "p"}
                      /\ url[i + 2] = "/"
                      /\ url[i + 3] \notin {"/", "?"}}
    IN  IF starts = {} THEN NoMatch
        ELSE LET i == SetMin(starts)
                 stops == {j \in (i + 3)..Len(url) : url[j] \in {"/", "?"}}
                 last == IF stops = {} THEN Len(url) ELSE SetMin(stops) - 1
             IN  [ok |-> TRUE, code |-> SubSeq(url, i + 3, last)]

\* ------------------------------------------- harness: sanitize on inputs
SanAlphabet == {"a", " ", ".", "/"}

SanInit ==
    /\ sName \in SeqsUpTo(SanAlphabet, MaxNameLen)
    /\ sMaxLen \in (0 - 2)..(MaxNameLen + 1)
    /\ sResult = Pending

ApplySanitize ==
    /\ sResult = Pending
    /\ sResult' = Returned(sanitize(sName, sMaxLen))
    /\ UNCHANGED <<sName, sMaxLen, urlVars, cliVars>>

\* ------------------------------------------------ harness: URLs in pairs
HeadAlphabet == {"/", "p", "reel", "A"}
TailAlphabet == {"?", "#", "A"}

\* Nothing, or a "?" or "#" and what follows: a query string and/or fragment.
Tails == {t \in SeqsUpTo(TailAlphabet, MaxTail) : t = <<>> \/ t[1] \in {"?", "#"}}

UrlInit ==
    /\ uHead \in SeqsUpTo(HeadAlphabet, MaxHead)
    /\ uTail1 \in Tails
    /\ uTail2 \in Tails
    /\ uResult1 = Pending
    /\ uResult2 = Pending

ApplyUrl ==
    /\ uResult1 = Pending
    /\ uResult1' = Returned(extract_shortcode(clean_url(uHead \o uTail1)))
    /\ uResult2' = Returned(extract_shortcode(clean_url(uHead \o uTail2)))
    /\ UNCHANGED <<uHead, uTail1, uTail2, sanVars, cliVars>>


\* ---------------------------------------------------- the command line
DashO == <<"-o">>
InitCmd == <<"init">>
HelpFlags == {<<"-h">>, <<"--help">>}

firefox == <<"firefox">>
chrome == <<"chrome">>
netscape == <<"netscape">>

SUPPORTED_BROWSERS ==
    <<<<"arc">>, <<"brave">>, chrome, <<"chromium">>, <<"edge">>, firefox,
      <<"librewolf">>, <<"opera">>, <<"opera_gx">>, <<"safari">>, <<"vivaldi">>>>

DefaultMaxLen == 70

Digits == <<"0", "1", "2", "3", "4", "5", "6", "7", "8", "9">>

DigitValue(c) == FirstIndex(Digits, c) - 1

\* What int() accepts: an optional sign, then one digit or more.
IsIntLiteral(tok) ==
    LET body == IF tok # <<>> /\ tok[1] \in {"-", "+"} THEN Tail(tok) ELSE tok
    IN  body # <<>> /\ \A i \in 1..Len(body) : body[i] \in Range(Digits)

RECURSIVE DigitsValue(_)
DigitsValue(ds) ==
    IF ds = <<>> THEN 0
    ELSE 10 * DigitsValue(SubSeq(ds, 1, Len(ds) - 1)) + DigitValue(ds[Len(ds)])

IntValue(tok) ==
    IF tok[1] = "-" THEN 0 - DigitsValue(Tail(tok))
    ELSE IF tok[1] = "+" THEN DigitsValue(Tail(tok))
    ELSE DigitsValue(tok)

\* str.lower() on the words the overrides are written with.
Lower(val) ==
    [i \in 1..Len(val) |->
        CASE val[i] \in {"True", "TRUE"} -> "true"
          [] val[i] \in {"False", "FALSE"} -> "false"
          [] OTHER -> val[i]]

IsFloatLiteral(val) ==
    \E k \in 1..Len(val) :
        /\ val[k] = "."
        /\ IsIntLiteral(SubSeq(val, 1, k - 1) \o <<"0">>)
        /\ \A i \in (k + 1)..Len(val) : val[i] \in Range(Digits)
        /\ Len(val) > 1

\* coerce: boolean words first, then int, then float, else the string.
coerce(val) ==
    IF Lower(val) \in {<<"true">>, <<"1">>, <<"yes">>} THEN [type |-> "bool", value |-> <<"true">>]
    ELSE IF Lower(val) \in {<<"false">>, <<"0">>, <<"no">>} THEN [type |-> "bool", value |-> <<"false">>]
    ELSE IF IsIntLiteral(val) THEN [type |-> "int", value |-> val]
    ELSE IF IsFloatLiteral(val) THEN [type |-> "float", value |-> val]
    ELSE [type |-> "str", value |-> val]

\* ----------------------------------------------------------------- paths
Cwd == <<"/", "w">>
Home == <<"/", "h">>

\* Path(p).expanduser().resolve(): "~" is the home directory, a relative
\* path (the empty one and "." too) is taken from the working directory.
Resolve(p) ==
    IF p = <<>> \/ p = <<".">> THEN Cwd
    ELSE IF p[1] = "~" THEN Home \o Tail(p)
    ELSE IF p[1] = "/" THEN p
    ELSE Cwd \o <<"/">> \o p

\* ------------------------------------------------------------ parse_args
IsOverride(arg) == "=" \in Range(arg) /\ ~StartsWith(arg, <<"http">>)

IsPositional(arg) == ~IsOverride(arg)

\* key, val = arg.split("=", 1)
OverrideKey(arg) == SubSeq(arg, 1, FirstIndex(arg, "=") - 1)

OverrideVal(arg) == SubSeq(arg, FirstIndex(arg, "=") + 1, Len(arg))

\* The dict the loop builds: a later key=value replaces an earlier one.
Overrides(args) ==
    LET keys == {OverrideKey(args[i]) : i \in {j \in 1..Len(args) : IsOverride(args[j])}}
        lastOf(k) == SetMax({j \in 1..Len(args) : IsOverride(args[j]) /\ OverrideKey(args[j]) = k})
    IN  [k \in keys |-> coerce(OverrideVal(args[lastOf(k)]))]

\* if output_dir: ... : None and the empty string are both false.
Truthy(output_dir) == output_dir.given /\ output_dir.value # <<>>

\* Priority: -o flag > INSTA_DL_DIR env/dotenv > cwd
OutputBase(output_dir, env) ==
    IF Truthy(output_dir) THEN Resolve(output_dir.value)
    ELSE Resolve(IF env = <<>> \/ env = <<".">> THEN Cwd ELSE env)

Exited(st) == [status |-> st, url |-> <<>>, max_len |-> DefaultMaxLen, base |-> <<>>, overrides |-> <<>>]

BadCountLoose(positional) == Len(positional) = 0

\* match positional: neither [url] nor [url, n]
BadCount(positional) == Len(positional) \notin {1, 2}

\* parse_args: status "ok" with (url, max_len, base, overrides), "exit1"
\* where it prints and calls sys.exit(1), "raise" where int(n) raises.
parse_args(args, env) ==
    LET hasO == DashO \in Range(args)
        idx == FirstIndex(args, DashO)
    IN  IF hasO /\ idx + 1 > Len(args) THEN Exited("exit1")
        ELSE
        LET output_dir == IF hasO THEN [given |-> TRUE, value |-> args[idx + 1]]
                          ELSE [given |-> FALSE, value |-> <<>>]
            rest == IF hasO THEN SubSeq(args, 1, idx - 1) \o SubSeq(args, idx + 2, Len(args))
                    ELSE args
            positional == SelectSeq(rest, IsPositional)
        IN  IF BadCount(positional) THEN Exited("exit1")
            ELSE IF Len(positional) = 2 /\ ~IsIntLiteral(positional[2]) THEN Exited("raise")
            ELSE [status |-> "ok",
                  url |-> positional[1],
                  max_len |-> IF Len(positional) = 2 THEN IntValue(positional[2]) ELSE DefaultMaxLen,
                  base |-> OutputBase(output_dir, env),
                  overrides |-> Overrides(rest)]

\* --------------------------------------------------- the remote service
\* The posts Instagram serves, by shortcode: owner, year of date_utc, caption.
ShortA == <<"A">>
ShortAB == <<"A", "B">>
ShortC == <<"C">>
ShortGone == <<"Z">>

Posts == {ShortA, ShortAB, ShortC}

PostProfile(code) == IF code = ShortC THEN "vera" ELSE "ula"

PostYear(code) == IF code = ShortC THEN 2023 ELSE 2024

PostCaption(code) ==
    CASE code = ShortA -> <<"h", "i", "\n", "y">>
      [] code = ShortAB -> <<" ", "h", "i", ".">>
      [] OTHER -> <<>>

UrlOf(code) == <<"http", ":", "/", "/", "ig", "/", "p", "/">> \o code

\* What each browser's cookie jar is logged in as ("" for nobody).
BrowserUser(browser) ==
    CASE browser = firefox -> "al"
      [] browser = chrome -> "bo"
      [] OTHER -> ""

\* Session file names in sorted order: session-al < session-bo.
UsersSorted == <<"al", "bo">>

\* ---------------------------------------------------------------- the disk
NoFiles == [k \in {} |-> 0]

WriteFile(fs, key, content) ==
    [k \in DOMAIN fs \cup {key} |-> IF k = key THEN content ELSE fs[k]]

\* os.rename: the target, if there is one, is replaced.
RenameFile(fs, src, dst) ==
    [k \in (DOMAIN fs \ {src}) \cup {dst} |-> IF k = dst THEN fs[src] ELSE fs[k]]

\* Character order of the symbols file names are made of.
SymbolsSorted == <<" ", ".", ".jpg", ".txt", "A", "B", "C", "Z", "_", "h", "i", "x", "y">>

SymRank(c) == FirstIndex(SymbolsSorted, c)

RECURSIVE NameLess(_, _)
NameLess(a, b) ==
    IF a = <<>> THEN b # <<>>
    ELSE IF b = <<>> THEN FALSE
    ELSE IF a[1] = b[1] THEN NameLess(Tail(a), Tail(b))
    ELSE SymRank(a[1]) < SymRank(b[1])

RECURSIVE SortedNames(_)
SortedNames(S) ==
    IF S = {} THEN <<>>
    ELSE LET m == CHOOSE x \in S : \A y \in S \ {x} : NameLess(x, y)
         IN  <<m>> \o SortedNames(S \ {m})

\* sorted(post_dir.glob(f"{shortcode}*")): the names in post_dir that start
\* with the shortcode.
Glob(fs, post_dir, shortcode) ==
    SortedNames({k[2] : k \in {f \in DOMAIN fs : f[1] = post_dir /\ StartsWith(f[2], shortcode)}})

\* load_session: the first session-* file of the sorted directory, or "".
load_session(store) ==
    LET idx == {i \in 1..Len(UsersSorted) : UsersSorted[i] \in DOMAIN store}
    IN  IF idx = {} THEN "" ELSE UsersSorted[SetMin(idx)]

logged_none(lg, profile_dir) == {}

\* logged_shortcodes: the shortcodes of the profile's downloads.jsonl.
logged_shortcodes(lg, profile_dir) ==
    IF profile_dir \notin DOMAIN lg THEN {}
    ELSE {lg[profile_dir][i].shortcode : i \in 1..Len(lg[profile_dir])}

\* append_log: one more line, in a file created when absent.
append_log_nothing(lg, profile_dir, shortcode, url, title) == lg

append_log(lg, profile_dir, shortcode, url, title) ==
    LET entry == [shortcode |-> shortcode, url |-> url, title |-> title]
        old == IF profile_dir \in DOMAIN lg THEN lg[profile_dir] ELSE <<>>
    IN  [d \in DOMAIN lg \cup {profile_dir} |-> IF d = profile_dir THEN Append(old, entry) ELSE lg[d]]

\* (post.caption or "").split("\n")[0].strip()
FirstLine(caption) ==
    LET n == FirstIndex(caption, "\n")
    IN  IF n = 0 THEN caption ELSE SubSeq(caption, 1, n - 1)

Strip(s) ==
    LET keep == {i \in 1..Len(s) : s[i] \notin {" ", "\n"}}
    IN  IF keep = {} THEN <<>> ELSE SubSeq(s, SetMin(keep), SetMax(keep))

\* What download_post saves for a post under filename_pattern
\* "{date_utc:%Y}/{shortcode}": the picture, and the caption when there is one.
Produced(code) ==
    IF PostCaption(code) = <<>> THEN <<code \o <<".jpg">>>>
    ELSE <<code \o <<".jpg">>, code \o <<".txt">>>>

\* ------------------------------------------------------------ the process
NoLocals ==
    [browser |-> <<>>, raw_url |-> <<>>, url |-> <<>>, max_len |-> DefaultMaxLen,
     base |-> <<>>, overrides |-> <<>>, shortcode |-> <<>>, username |-> "",
     existing_ok |-> FALSE, title |-> <<>>, todo |-> <<>>, outcome |-> ""]

Snapshot == [sessions |-> sessions, files |-> files, dirs |-> dirs, log |-> log]

NoPrev == [ok |-> FALSE, midway |-> FALSE, url |-> <<>>, base |-> <<>>]

Running == pc \notin {"idle", "exit"}

\* The process ends: sys.exit(code), or main() returns (code 0).
Exit(code, outcome, locals) ==
    /\ pc' = "exit"
    /\ exitCode' = code
    /\ loc' = [locals EXCEPT !.outcome = outcome]

Did(e) == effects' = effects \cup {e}

ProfileDir == <<loc.base, PostProfile(loc.shortcode)>>

PostDir == <<loc.base, PostProfile(loc.shortcode), PostYear(loc.shortcode)>>

\* History: the files this run saved for its post, as the run ends.
SavedNow ==
    {[key |-> k, content |-> files[k]] :
        k \in {f \in DOMAIN files : f[1] = PostDir /\ files[f].post = loc.shortcode}}

\* The shell starts the tool: argv and the environment are the run's inputs.
Invoke(args, env) ==
    /\ ~Running
    /\ argv' = args
    /\ envDir' = env
    /\ pc' = "main"
    /\ loc' = NoLocals
    /\ exitCode' = 0
    /\ effects' = {}
    /\ pre' = Snapshot
    \* history: whether the run that just ended went well (ok), or died
    \* after it had started to save (midway)
    /\ prev' = IF pc = "exit"
               THEN [ok |-> exitCode = 0 /\ loc.outcome \in {"saved", "skipped"},
                     midway |-> loc.outcome = "aborted" /\ "mkdir" \in effects,
                     url |-> loc.raw_url, base |-> loc.base]
               ELSE NoPrev
    /\ UNCHANGED <<diskVars, saved, sanVars, urlVars>>

\* main, up to the shortcode: help, the init subcommand, parse_args,
\* clean_url, extract_shortcode.
Main ==
    /\ pc = "main"
    /\ IF argv = <<>> \/ argv[1] \in HelpFlags THEN Exit(0, "help", loc)
       ELSE IF argv[1] = InitCmd
       THEN /\ pc' = "init_check"
            /\ loc' = [loc EXCEPT !.browser = IF Len(argv) > 1 THEN argv[2] ELSE firefox]
            /\ UNCHANGED exitCode
       ELSE LET parsed == parse_args(argv, envDir)
                url == clean_url(parsed.url)
                found == extract_shortcode(url)
            IN  IF parsed.status # "ok" THEN Exit(1, "usage", loc)
                ELSE IF ~found.ok
                THEN Exit(1, "no_shortcode",
                          [loc EXCEPT !.raw_url = parsed.url, !.url = url, !.base = parsed.base,
                                      !.max_len = parsed.max_len, !.overrides = parsed.overrides])
                ELSE /\ pc' = "load_session"
                     /\ loc' = [loc EXCEPT !.raw_url = parsed.url, !.url = url,
                                           !.base = parsed.base, !.max_len = parsed.max_len,
                                           !.overrides = parsed.overrides,
                                           !.shortcode = found.code]
                     /\ UNCHANGED exitCode
    /\ UNCHANGED <<argv, envDir, diskVars, histVars, sanVars, urlVars>>

NoSessionIgnored(username) == FALSE

\* if not username: ... sys.exit(1)
NoSession(username) == username = ""

\* username = load_session(L)
LoadSession ==
    /\ pc = "load_session"
    /\ Did("session")
    /\ LET username == load_session(sessions)
       IN  IF NoSession(username) THEN Exit(1, "no_session", loc)
           ELSE /\ pc' = "fetch"
                /\ loc' = [loc EXCEPT !.username = username]
                /\ UNCHANGED exitCode
    /\ UNCHANGED <<argv, envDir, diskVars, pre, prev, saved, sanVars, urlVars>>

\* post = instaloader.Post.from_shortcode(L.context, shortcode): a request
\* to the service; a shortcode it does not know raises.
FetchPost ==
    /\ pc = "fetch"
    /\ Did("network")
    /\ IF loc.shortcode \in Posts
       THEN pc' = "check_log" /\ UNCHANGED <<loc, exitCode>>
       ELSE Exit(1, "aborted", loc)
    /\ UNCHANGED <<argv, envDir, diskVars, pre, prev, saved, sanVars, urlVars>>

\* if shortcode in logged_shortcodes(profile_dir): ... return
CheckLog ==
    /\ pc = "check_log"
    /\ IF loc.shortcode \in logged_shortcodes(log, ProfileDir)
       THEN Exit(0, "skipped", loc)
       ELSE pc' = "mkdir" /\ UNCHANGED <<loc, exitCode>>
    /\ UNCHANGED <<argv, envDir, diskVars, histVars, sanVars, urlVars>>

\* base.mkdir(parents=True, exist_ok=True)
MkBase ==
    /\ pc = "mkdir"
    /\ Did("mkdir")
    /\ dirs' = dirs \cup {<<loc.base>>}
    /\ pc' = "download"
    /\ loc' = [loc EXCEPT !.todo = Produced(loc.shortcode)]
    /\ UNCHANGED <<argv, envDir, exitCode, sessions, files, log, pre, prev, saved, sanVars, urlVars>>

\* L.download_post(post, target=post.profile), one file at a time: the
\* library makes the directories and leaves a file that is already there.
DownloadFile ==
    /\ pc = "download"
    /\ Did("write")
    /\ LET key == <<PostDir, Head(loc.todo)>>
           part == Head(loc.todo)[Len(Head(loc.todo))]
       IN  files' = IF key \in DOMAIN files THEN files
                    ELSE WriteFile(files, key, [post |-> loc.shortcode, part |-> part])
    /\ dirs' = dirs \cup {ProfileDir, PostDir}
    /\ loc' = [loc EXCEPT !.todo = Tail(loc.todo)]
    /\ pc' = IF Tail(loc.todo) = <<>> THEN "title" ELSE "download"
    /\ UNCHANGED <<argv, envDir, exitCode, sessions, log, pre, prev, saved, sanVars, urlVars>>

\* The title, and either the log entry under the shortcode (no title) or
\* the list of files to rename.
Title ==
    /\ pc = "title"
    /\ LET title == sanitize(Strip(FirstLine(PostCaption(loc.shortcode))), loc.max_len)
       IN  IF title = <<>>
           THEN /\ log' = append_log(log, ProfileDir, loc.shortcode, loc.url, loc.shortcode)
                /\ Did("append")
                /\ saved' = saved \cup SavedNow
                /\ Exit(0, "saved", loc)
           ELSE /\ loc' = [loc EXCEPT !.title = title, !.todo = Glob(files, PostDir, loc.shortcode)]
                /\ pc' = IF Glob(files, PostDir, loc.shortcode) = <<>> THEN "append" ELSE "rename"
                /\ UNCHANGED <<log, effects, exitCode, saved>>
    /\ UNCHANGED <<argv, envDir, sessions, files, dirs, pre, prev, sanVars, urlVars>>

RenamesDoneEarly(todo) == TRUE

\* The for loop has no file left.
RenamesDone(todo) == todo = <<>>

\* suffix = f.name.removeprefix(shortcode); f.rename(f.parent / f"{title}{suffix}")
RenameOne ==
    /\ pc = "rename"
    /\ Did("rename")
    /\ LET name == Head(loc.todo)
           suffix == SubSeq(name, Len(loc.shortcode) + 1, Len(name))
       IN  files' = RenameFile(files, <<PostDir, name>>, <<PostDir, loc.title \o suffix>>)
    /\ loc' = [loc EXCEPT !.todo = Tail(loc.todo)]
    /\ pc' = IF RenamesDone(Tail(loc.todo)) THEN "append" ELSE "rename"
    /\ UNCHANGED <<argv, envDir, exitCode, sessions, dirs, log, pre, prev, saved, sanVars, urlVars>>

\* append_log(profile_dir, post, url, title or shortcode)
AppendLog ==
    /\ pc = "append"
    /\ Did("append")
    /\ log' = append_log(log, ProfileDir, loc.shortcode, loc.url, loc.title)
    /\ saved' = saved \cup SavedNow
    /\ Exit(0, "saved", loc)
    /\ UNCHANGED <<argv, envDir, sessions, files, dirs, pre, prev, sanVars, urlVars>>

\* An exception nothing catches (the service, the disk) or a kill: the
\* process ends where it is, with a nonzero code.
Abort ==
    /\ Running
    /\ Exit(1, "aborted", loc)
    /\ UNCHANGED <<argv, envDir, diskVars, histVars, sanVars, urlVars>>

\* ------------------------------------------------------------------- init
LoginFailedIgnored(username) == FALSE

\* if not username: ... sys.exit(1)
LoginFailed(username) == username = ""

\* existing = load_session(L); if existing and L.test_login(): ... return
\* (test_login asks the service, which may or may not accept the session).
InitCheck ==
    /\ pc = "init_check"
    /\ \E accepted \in BOOLEAN :
        LET existing == load_session(sessions)
            valid == existing # "" /\ accepted
        IN  /\ effects' = effects \cup {"session"} \cup (IF existing # "" THEN {"network"} ELSE {})
            /\ IF valid
               THEN Exit(0, "init_exists", [loc EXCEPT !.existing_ok = valid])
               ELSE /\ pc' = "init_browser"
                    /\ loc' = [loc EXCEPT !.existing_ok = valid]
                    /\ UNCHANGED exitCode
    /\ UNCHANGED <<argv, envDir, diskVars, pre, prev, saved, sanVars, urlVars>>

\* The supported set, and whether the installed browser_cookie3 has a
\* function of that name.
InitBrowser ==
    /\ pc = "init_browser"
    /\ \E has_cookie_fn \in BOOLEAN :
        IF loc.browser \notin Range(SUPPORTED_BROWSERS) THEN Exit(1, "init_unsupported", loc)
        ELSE IF ~has_cookie_fn THEN Exit(1, "init_no_cookie_fn", loc)
        ELSE pc' = "init_login" /\ UNCHANGED <<loc, exitCode>>
    /\ UNCHANGED <<argv, envDir, diskVars, histVars, sanVars, urlVars>>

\* username = L.test_login() with the browser's cookies: the user the jar
\* is logged in as, or nobody; then L.save_session_to_file().
InitLogin ==
    /\ pc = "init_login"
    /\ Did("network")
    /\ \E username \in {BrowserUser(loc.browser), ""} :
        IF LoginFailed(username)
        THEN Exit(1, "init_no_login", [loc EXCEPT !.username = username]) /\ UNCHANGED sessions
        ELSE /\ sessions' = [u \in DOMAIN sessions \cup {username} |->
                                IF u = username THEN loc.browser ELSE sessions[u]]
             /\ Exit(0, "init_saved", [loc EXCEPT !.username = username])
    /\ UNCHANGED <<argv, envDir, files, dirs, log, pre, prev, saved, sanVars, urlVars>>

\* ------------------------------------------------------- specifications
NoSessions == [u \in {} |-> <<>>]
OldSession == [u \in {"al"} |-> <<"old">>]
NoLog == [d \in {} |-> <<>>]

DiskInit ==
    /\ sessions \in {NoSessions, OldSession}
    /\ files = NoFiles
    /\ dirs = {}
    /\ log = NoLog
    /\ saved = {}
    /\ pre = [sessions |-> sessions, files |-> NoFiles, dirs |-> {}, log |-> NoLog]
    /\ prev = NoPrev
    /\ effects = {}

SanIdle == sName = <<>> /\ sMaxLen = 0 /\ sResult = Pending
UrlIdle == uHead = <<>> /\ uTail1 = <<>> /\ uTail2 = <<>> /\ uResult1 = Pending /\ uResult2 = Pending
CliIdle ==
    /\ argv = <<>> /\ envDir = <<>> /\ pc = "idle" /\ loc = NoLocals /\ exitCode = 0
    /\ sessions = NoSessions /\ files = NoFiles /\ dirs = {} /\ log = NoLog /\ saved = {}
    /\ pre = [sessions |-> NoSessions, files |-> NoFiles, dirs |-> {}, log |-> NoLog]
    /\ prev = NoPrev /\ effects = {}

\* The command lines of the workflow: a post's URL (with or without a
\* tracking query), an optional title length, the init subcommand, help,
\* and malformed ones.
Tracked(url) == url \o <<"?", "u", "=", "1">>

CliArgs ==
    {<<UrlOf(c)>> : c \in Posts \cup {ShortGone}}
    \cup {<<Tracked(UrlOf(ShortA))>>, <<>>, <<DashO>>}

CliInit ==
    /\ argv = <<>> /\ envDir = <<>> /\ pc = "idle" /\ loc = NoLocals /\ exitCode = 0
    /\ DiskInit

Next ==
    \/ \E args \in CliArgs : Invoke(args, <<>>)
    \/ Main \/ LoadSession \/ FetchPost \/ CheckLog \/ MkBase \/ DownloadFile
    \/ Title \/ RenameOne \/ AppendLog \/ Abort

Init == CliInit /\ SanIdle /\ UrlIdle

Spec == Init /\ [][Next]_vars

\* The init subcommand, run after run, on the session store.
InitCmdLines ==
    {<<InitCmd>>, <<InitCmd, chrome>>, <<InitCmd, netscape>>, <<InitCmd, <<"safari">>>>, <<<<"--help">>>>}

NextInit ==
    \/ \E args \in InitCmdLines : Invoke(args, <<>>)
    \/ Main \/ InitCheck \/ InitBrowser \/ InitLogin \/ Abort

SpecInit == Init /\ [][NextInit]_vars

\* One run of the download path on every argument list of bounded length.
MaxArgs == 3

ArgTokens == {DashO, <<>>, UrlOf(ShortA), <<"2">>, <<"x">>, <<"k", "=", "1">>}

EnvDirs == {<<>>, <<"/", "e">>}

ArgsInit ==
    /\ argv \in SeqsUpTo(ArgTokens, MaxArgs) \ {<<>>}
    /\ envDir \in EnvDirs
    /\ pc = "main" /\ loc = NoLocals /\ exitCode = 0
    /\ DiskInit

NextRun ==
    \/ Main \/ LoadSession \/ FetchPost \/ CheckLog \/ MkBase \/ DownloadFile
    \/ Title \/ RenameOne \/ AppendLog \/ Abort

InitOneRun == ArgsInit /\ SanIdle /\ UrlIdle

SpecArgs == InitOneRun /\ [][NextRun]_vars

NextSanitize == ApplySanitize

InitSanitize == SanInit /\ UrlIdle /\ CliIdle

SpecSanitize == InitSanitize /\ [][NextSanitize]_vars

NextUrl == ApplyUrl

InitUrl == UrlInit /\ SanIdle /\ CliIdle

SpecUrl == InitUrl /\ [][NextUrl]_vars

\* ================================================================ claims
DiskAsBefore == files = pre.files /\ dirs = pre.dirs /\ log = pre.log

DownloadPath(args) == args # <<>> /\ args[1] \notin HelpFlags \cup {InitCmd}

\* This run has the URL and the output directory of the run before it.
Repeat == loc.raw_url # <<>> /\ loc.raw_url = prev.url /\ loc.base = prev.base

IsPrefix(a, b) == Len(a) <= Len(b) /\ SubSeq(b, 1, Len(a)) = a

C2_LogAppendOnly ==
    /\ \A d \in DOMAIN log : \A i, j \in 1..Len(log[d]) :
          log[d][i].shortcode = log[d][j].shortcode => i = j
    /\ \A d \in DOMAIN pre.log : d \in DOMAIN log /\ IsPrefix(pre.log[d], log[d])

C2_Witness ==
    /\ pc = "exit" /\ loc.outcome = "skipped"
    /\ \E d \in DOMAIN log : Len(log[d]) = 2
    /\ Cardinality(DOMAIN log) = 2

\* ---------------------------------------------------------------- C3
NoHostile(s) == Range(s) \cap HostileChars = {}

CleanEnd(s) == s = <<>> \/ s[Len(s)] \notin {".", " "}

\* C3, as stated: for every name and every integer max_len the result is
\* no longer than max_len, has no hostile character and does not end in
\* "." or a space.
C3_AnyMaxLen ==
    sResult.done =>
        /\ Len(sResult.value) <= sMaxLen
        /\ NoHostile(sResult.value)
        /\ CleanEnd(sResult.value)

\* C3, amended: for every name and every max_len >= 0 the result is no
\* longer than max_len; for every max_len, negative ones too, it has no
\* hostile character and does not end in "." or a space.
C3_Sanitize ==
    sResult.done =>
        /\ (sMaxLen >= 0 => Len(sResult.value) <= sMaxLen)
        /\ NoHostile(sResult.value)
        /\ CleanEnd(sResult.value)

C3_Witness ==
    /\ sResult.done
    /\ sMaxLen > 0 /\ Len(sName) > sMaxLen
    /\ "/" \in Range(sName) /\ "_" \in Range(sResult.value)
    /\ Len(sResult.value) < sMaxLen

\* ---------------------------------------------------------------- C4
\* The arguments parse_args got past: it resolved an output directory.
Resolved == loc.base # <<>>

HasDashOValue(args) == DashO \in Range(args) /\ FirstIndex(args, DashO) < Len(args)

\* C4: when -o is followed by a value DIR the output directory is DIR,
\* expanded and absolute, whatever INSTA_DL_DIR is; INSTA_DL_DIR counts only
\* without -o, and the working directory only without both.
C4_OutputDirPrecedence ==
    Resolved =>
        loc.base = IF HasDashOValue(argv) THEN Resolve(argv[FirstIndex(argv, DashO) + 1])
                   ELSE IF envDir # <<>> THEN Resolve(envDir)
                   ELSE Cwd

\* ---------------------------------------------------------------- C5
\* C5: two URLs that differ only in query string and fragment give the
\* same outcome of extract_shortcode(clean_url(.)): the same shortcode, or
\* the no-shortcode error for both.
C5_SameShortcode == uResult1.done => uResult1.value = uResult2.value

C5_Witness ==
    /\ uResult1.done /\ uResult1.value.ok
    /\ uTail1 # <<>> /\ uTail2 # <<>> /\ uTail1 # uTail2
    /\ "#" \in Range(uTail1) /\ "?" \in Range(uTail2)

\* ---------------------------------------------------------------- C6
\* The positional tokens the claim counts: what is left without the -o
\* pair and the key=value overrides.
PositionalOf(args) ==
    LET idx == FirstIndex(args, DashO)
        rest == IF HasDashOValue(args)
                THEN SubSeq(args, 1, idx - 1) \o SubSeq(args, idx + 2, Len(args))
                ELSE args
    IN  SelectSeq(rest, IsPositional)

WrongPositionals(args) ==
    \/ Len(PositionalOf(args)) \notin {1, 2}
    \/ Len(PositionalOf(args)) = 2 /\ ~IsIntLiteral(PositionalOf(args)[2])

FailsFast ==
    /\ pc \in {"main", "exit"}
    /\ effects = {}
    /\ DiskAsBefore /\ sessions = pre.sessions
    /\ (pc = "exit" => exitCode # 0)

\* C6, as stated: on the download path, an argument list whose last token
\* is -o, or whose positional tokens are not one or two, or whose second
\* positional token is no integer, ends the run with a nonzero exit before
\* any session load, fetch, directory creation, rename or log append.
C6_DashOLast ==
    (DownloadPath(argv) /\ (argv[Len(argv)] = DashO \/ WrongPositionals(argv))) => FailsFast

\* C6, amended: the same, for the argument lists in which the first -o is
\* the last token (a later -o is the value of the first), or whose
\* positional tokens are not one or two, or whose second positional token
\* is no integer.
C6_UsageErrors ==
    (DownloadPath(argv) /\ (FirstIndex(argv, DashO) = Len(argv) \/ WrongPositionals(argv)))
        => FailsFast

C6_Witness ==
    /\ pc = "exit" /\ exitCode = 1 /\ loc.outcome = "usage"
    /\ Len(argv) = 3 /\ argv[3] # DashO
    /\ Len(PositionalOf(argv)) = 2 /\ ~IsIntLiteral(PositionalOf(argv)[2])

\* ---------------------------------------------------------------- C7
\* C7: a run of the download path that finds no session file does nothing
\* but look for one: no request, no directory, no file, no log entry; it
\* ends with a nonzero exit, and once it has looked, with the directive.
C7_NoSessionNoDownload ==
    (DownloadPath(argv) /\ pc # "idle" /\ load_session(pre.sessions) = "")
    =>  /\ pc \in {"main", "load_session", "exit"}
        /\ effects \subseteq {"session"}
        /\ DiskAsBefore /\ sessions = pre.sessions
        /\ (pc = "exit" => exitCode # 0)
        /\ ("session" \in effects => pc = "exit" /\ loc.outcome = "no_session")

C7_Witness ==
    /\ pc = "exit" /\ exitCode = 1 /\ loc.outcome = "no_session"
    /\ loc.shortcode = ShortA /\ effects = {"session"}

\* ---------------------------------------------------------------- C8
IsInitRun(args) == args # <<>> /\ args[1] = InitCmd

\* C8: init changes the session store in one outcome only: the existing
\* session did not validate, the browser is a supported one and the login
\* test with its cookies named a user; the session is then stored under
\* that user's name and the rest of the store is as before.  In every
\* other outcome the store is unchanged; an unsupported browser and a
\* failed login test exit nonzero.
C8_InitFrame ==
    IsInitRun(argv) =>
        /\ (sessions # pre.sessions => pc = "exit" /\ loc.outcome = "init_saved")
        /\ (loc.outcome = "init_saved" =>
               /\ ~loc.existing_ok
               /\ loc.browser \in Range(SUPPORTED_BROWSERS)
               /\ loc.username # "" /\ loc.username = BrowserUser(loc.browser)
               /\ DOMAIN sessions = DOMAIN pre.sessions \cup {loc.username}
               /\ sessions[loc.username] = loc.browser
               /\ \A u \in DOMAIN pre.sessions \ {loc.username} : sessions[u] = pre.sessions[u]
               /\ exitCode = 0)
        /\ (loc.outcome \in {"init_unsupported", "init_no_login"} => exitCode # 0)
        /\ (loc.outcome = "init_exists" => loc.existing_ok /\ exitCode = 0)
        /\ DiskAsBefore

C8_Witness ==
    /\ IsInitRun(argv) /\ pc = "exit" /\ loc.outcome = "init_saved"
    /\ pre.sessions # NoSessions /\ sessions # pre.sessions
    /\ loc.username \notin DOMAIN pre.sessions

\* ---------------------------------------------------------------- C9
\* C9: the log changes in a run only as that run's last step, after the
\* download and every rename, and by one entry for the run's shortcode; a
\* run that is aborted leaves the log as it found it; a run skips only a
\* shortcode the log already had; and the run after one that died while
\* saving, with the same URL and directory, does not skip: it fetches and
\* saves again.
C9_AppendLast ==
    /\ log # pre.log =>
          /\ pc = "exit" /\ loc.outcome = "saved"
          /\ {"network", "mkdir", "write", "append"} \subseteq effects
          /\ loc.todo = <<>>
          /\ log = append_log(pre.log, ProfileDir, loc.shortcode, loc.url,
                              IF loc.title = <<>> THEN loc.shortcode ELSE loc.title)
    /\ (pc = "exit" /\ loc.outcome = "aborted" => log = pre.log)
    /\ (loc.outcome = "skipped" => loc.shortcode \in logged_shortcodes(pre.log, ProfileDir))
    /\ (prev.midway /\ Repeat =>
          /\ loc.outcome # "skipped"
          /\ (pc = "exit" /\ loc.outcome # "aborted" => loc.outcome = "saved" /\ "write" \in effects))

C9_Witness ==
    /\ prev.midway /\ Repeat
    /\ pc = "exit" /\ loc.outcome = "saved" /\ "rename" \in effects
    /\ log # pre.log

\* --------------------------------------------------------------- C10
\* C10: every file a finished download saved for its post is still there,
\* under the name and with the content it had when that run ended.
C10_EarlierFilesKept ==
    \A r \in saved : r.key \in DOMAIN files /\ files[r.key] = r.content
====
